---- MODULE Spec2Model ----
(***************************************************************************)
(* Model of ezmsg-xdf's chunked XDF iterators (src/src/ezmsg/xdf/iter.py): *)
(* XDFIterator, XDFAxisArrayIterator and XDFMultiAxArrIterator.            *)
(*                                                                         *)
(* Time is discrete: a timestamp is a natural number of ticks, chunk_dur   *)
(* a positive number of ticks.  A file is a map from stream name to its    *)
(* increasing timestamp vector; sample j of a stream carries the datum j,  *)
(* so that data and timestamps can be told apart.  Python's Optional       *)
(* values are sets of at most one element (None == {}).                    *)
(***************************************************************************)
EXTENDS Integers, Sequences, FiniteSets, TLC

\* ---------------------------------------------------------------- bounds
\* Largest timestamp of a file.
MaxT == 3
\* Largest number of samples of one stream.
MaxLen == 2
\* Largest chunk_dur.
MaxChunkDur == 2

\* np.inf, the initial value of xdf_t0.
Inf == 1000

\* ------------------------------------------------------- Python helpers
None == {}
Some(x) == {x}
The(o) == CHOOSE x \in o : TRUE

Max2(a, b) == IF a >= b THEN a ELSE b
Min2(a, b) == IF a <= b THEN a ELSE b
SetMax(S) == CHOOSE x \in S : \A y \in S : y <= x
SetMin(S) == CHOOSE x \in S : \A y \in S : x <= y

\* arr[b]: numpy boolean-mask indexing, keeping order.
Mask(arr, b) ==
    LET idx == SelectSeq([i \in 1..Len(arr) |-> i], LAMBDA i : b[i])
    IN  [k \in 1..Len(idx) |-> arr[idx[k]]]

\* int(np.ceil(a / b)) for b > 0.
CeilDiv(a, b) == -((-a) \div b)

\* --------------------------------------------------------- the XDF file
\* The streams of the file, and a name that is no stream of the file.
StreamNames == {"A", "B"}
UnknownName == "Z"
AllNames == StreamNames \cup {UnknownName}

\* Stream headers: A is a regularly sampled two-channel stream with channel
\* labels in its description, B an irregular one-channel marker stream.
Info(n) ==
    IF n = "A"
    THEN [name |-> n, type |-> "EEG", channel_count |-> 2, nominal_srate |-> 10,
          desc |-> Some(<<"C3", "C4">>)]
    ELSE [name |-> n, type |-> "Markers", channel_count |-> 1, nominal_srate |-> 0,
          desc |-> None]

TimeVecs ==
    {s \in UNION {[1..k -> 0..MaxT] : k \in 0..MaxLen} :
        \A i \in 1..Len(s) : \A j \in 1..Len(s) : i < j => s[i] < s[j]}

Files == [StreamNames -> TimeVecs]

\* ------------------------------------------------------- configurations
OptStart == {None, Some(1)}
OptStop == {None, Some(2)}
SelectSets == {None} \cup {Some(s) : s \in SUBSET AllNames}

BaseConfigs(cls, selects, fss) ==
    [cls : {cls}, select : selects, chunk_dur : 1..MaxChunkDur,
     start_time : OptStart, stop_time : OptStop, rezero : BOOLEAN,
     force_single_sample : fss]

Configs ==
    BaseConfigs("XDFIterator", SelectSets, {{}})
    \cup BaseConfigs("XDFAxisArrayIterator", {Some({n}) : n \in AllNames}, {{}})
    \cup BaseConfigs("XDFMultiAxArrIterator", SelectSets, {{}, {"B"}})

\* ------------------------------------------------------------ the state
VARIABLES
    xdf,         \* the file at filepath
    cfg,         \* the constructor's arguments
    status,      \* "ok", or the exception that construction raised
    streams,     \* self._streams, by stream name
    metadata,    \* self._metadata
    n_chunks,    \* self._n_chunks
    templates,   \* self._template / self._templates, by stream name
    chunk_ix,    \* self._chunk_ix
    last_time,   \* self._last_time
    chunk_dict,  \* what XDFIterator.__next__ returned in the last call
    out,         \* what the last call returned or raised
    delivered,   \* history: per stream, the data returned so far in this pass
    first0,      \* history: the result of the first __next__ call
    restarted,   \* history: __iter__ was called after construction
    returned,    \* history: the timestamps returned since construction
    unit         \* the publisher unit that drives the iterator, if any

vars == <<xdf, cfg, status, streams, metadata, n_chunks, templates, chunk_ix,
          last_time, chunk_dict, out, delivered, first0, restarted, returned,
          unit>>

\* ------------------------------------------------ XDFIterator._scan_file
\* Mutant: the names are handed to the loader with rezero too.
select_streams_always(select, rezero) == select

\* The select_streams argument of pyxdf.load_xdf: the names are handed to
\* the loader only when rezero is off.
select_streams(select, rezero) ==
    IF select = None \/ rezero THEN None ELSE select

\* pyxdf.load_xdf: the streams of the file, or those matching one of the
\* requested names.
load_xdf(file, sel) ==
    LET names == IF sel = None THEN DOMAIN file ELSE DOMAIN file \cap The(sel)
    IN  [n \in names |->
            [info |-> Info(n),
             time_series |-> [i \in 1..Len(file[n]) |-> i],
             time_stamps |-> file[n]]]

\* pyxdf.load_xdf raises ValueError when no stream matches the request.
load_xdf_raises(file, sel) ==
    sel # None /\ DOMAIN file \cap The(sel) = {}

\* new_meta of one stream.
new_meta(strm) ==
    [name |-> strm.info.name, type |-> strm.info.type,
     channel_count |-> strm.info.channel_count,
     nominal_srate |-> strm.info.nominal_srate]

\* self._metadata after the first loop.
scan_metadata(strms) == [n \in DOMAIN strms |-> new_meta(strms[n])]

NonEmpty(strms) == {n \in DOMAIN strms : Len(strms[n].time_stamps) > 0}

\* xdf_t0 after the first loop: the least first timestamp, np.inf if no
\* stream has a sample.
xdf_t0(strms) ==
    IF NonEmpty(strms) = {} THEN Inf
    ELSE SetMin({strms[n].time_stamps[1] : n \in NonEmpty(strms)})

\* Mutant: the timestamps are left as they are.
rezero_streams_none(strms, t0) == strms

\* strm["time_stamps"] = strm["time_stamps"] - xdf_t0, for every stream.
rezero_streams(strms, t0) ==
    [n \in DOMAIN strms |->
        [strms[n] EXCEPT !.time_stamps = [i \in 1..Len(@) |-> @[i] - t0]]]

\* Mutant: stop_time is not looked at.
b_keep_start_only(tvec, time_range) ==
    [i \in 1..Len(tvec) |-> time_range[1] # None => tvec[i] >= The(time_range[1])]

\* b_keep of one timestamp vector under time_range = (start_time, stop_time).
b_keep(tvec, time_range) ==
    [i \in 1..Len(tvec) |->
        /\ time_range[1] # None => tvec[i] >= The(time_range[1])
        /\ time_range[2] # None => tvec[i] <= The(time_range[2])]

\* len(tvec) > 0 and np.any(~b_keep)
any_dropped(strm, time_range) ==
    /\ Len(strm.time_stamps) > 0
    /\ \E i \in 1..Len(strm.time_stamps) : ~b_keep(strm.time_stamps, time_range)[i]

\* The trimming loop assigns strm["time_stamps"] and then reads
\* strm["timeseries"], a key no stream record has (the data is under
\* "time_series"): the read raises KeyError.
trim_raises(strms, time_range) ==
    \E n \in DOMAIN strms :
        /\ any_dropped(strms[n], time_range)
        /\ "timeseries" \notin DOMAIN strms[n]

\* The streams after the trimming loop, when it did not raise.
trim_streams(strms, time_range) ==
    [n \in DOMAIN strms |->
        IF any_dropped(strms[n], time_range)
        THEN [strms[n] EXCEPT !.time_stamps = Mask(@, b_keep(@, time_range))]
        ELSE strms[n]]

\* xdf_dur: the greatest last timestamp (at least 0), less xdf_t0 unless
\* rezero.
xdf_dur(strms, t0, rezero) ==
    LET lasts == {strms[n].time_stamps[Len(strms[n].time_stamps)] : n \in NonEmpty(strms)}
        dur == SetMax(lasts \cup {0})
    IN  IF ~rezero THEN dur - t0 ELSE dur

\* int(...) of an infinite float raises OverflowError.
n_chunks_raises(dur) == dur >= Inf \/ dur <= -Inf

\* Mutant: rounding down.
calc_n_chunks_floor(dur, chunk_dur) == dur \div chunk_dur

\* self._n_chunks = int(np.ceil(xdf_dur / self._chunk_dur))
calc_n_chunks(dur, chunk_dur) == CeilDiv(dur, chunk_dur)

\* stream_names.index(_) raises ValueError for a name that is no loaded stream.
drop_raises(strms, select, rezero) ==
    /\ rezero /\ select # None
    /\ \E s \in The(select) : s \notin DOMAIN strms

\* Mutant: no stream is dropped.
drop_streams_keep_all(strms, select, rezero) == strms

\* self._streams after the drop of the streams that were not selected.
drop_streams(strms, select, rezero) ==
    IF rezero /\ select # None
    THEN [n \in The(select) |-> strms[n]]
    ELSE strms

\* self._metadata after the drop.
drop_metadata(meta, select, rezero) ==
    IF rezero /\ select # None
    THEN [n \in The(select) |-> meta[n]]
    ELSE meta

Failed(exc) ==
    [status |-> exc, streams |-> <<>>, metadata |-> <<>>, n_chunks |-> 0]

\* XDFIterator.__init__ and _scan_file: the object's fields, or the exception.
scan_file(file, c) ==
    LET sel == select_streams(c.select, c.rezero)
        loaded == load_xdf(file, sel)
        t0 == xdf_t0(loaded)
        zeroed == IF c.rezero THEN rezero_streams(loaded, t0) ELSE loaded
        time_range == <<c.start_time, c.stop_time>>
        trimmed == trim_streams(zeroed, time_range)
        dur == xdf_dur(trimmed, t0, c.rezero)
    IN  IF load_xdf_raises(file, sel) THEN Failed("ValueError")
        ELSE IF trim_raises(zeroed, time_range) THEN Failed("KeyError")
        ELSE IF n_chunks_raises(dur) THEN Failed("OverflowError")
        ELSE IF drop_raises(trimmed, c.select, c.rezero) THEN Failed("ValueError")
        ELSE [status |-> "ok",
              streams |-> drop_streams(trimmed, c.select, c.rezero),
              metadata |-> drop_metadata(scan_metadata(loaded), c.select, c.rezero),
              n_chunks |-> calc_n_chunks(dur, c.chunk_dur)]

\* ------------------------------------------------------------ templates
labels_from_strm(strm) ==
    IF strm.info.desc # None
    THEN The(strm.info.desc)
    ELSE [i \in 1..strm.info.channel_count |-> ToString(i)]

\* fs or 1.0
fs_or_one(fs) == IF fs = 0 THEN 1 ELSE fs

\* The AxisArray template of one stream: no samples, offset 0.
make_template(strm, meta, n_ch) ==
    [data |-> <<>>, n_ch |-> n_ch, dims |-> <<"time", "ch">>,
     fs |-> fs_or_one(meta.nominal_srate), offset |-> 0,
     labels |-> labels_from_strm(strm), key |-> strm.info.name]

\* XDFAxisArrayIterator.__init__: self._template, built from the metadata of
\* the selected name and from self._streams[0].
single_template(strms, meta, select) ==
    LET _sel == CHOOSE n \in The(select) : TRUE
        strm0 == strms[CHOOSE n \in DOMAIN strms : TRUE]
    IN  [n \in {_sel} |->
            make_template(strm0, meta[_sel], Len(labels_from_strm(strm0)))]

\* XDFMultiAxArrIterator.__init__: self._templates, one per metadata entry.
multi_templates(strms, meta) ==
    [n \in DOMAIN meta |-> make_template(strms[n], meta[n], meta[n].channel_count)]

init_templates(cls, strms, meta, select) ==
    IF cls = "XDFAxisArrayIterator" THEN single_template(strms, meta, select)
    ELSE IF cls = "XDFMultiAxArrIterator" THEN multi_templates(strms, meta)
    ELSE <<>>

\* Results of a call: nothing yet, self (from __iter__), a returned value, or
\* the StopIteration raised.
NoResult == [kind |-> "none", val |-> <<>>]
Self == [kind |-> "self", val |-> <<>>]
StopIteration == [kind |-> "StopIteration", val |-> <<>>]
Chunk(v) == [kind |-> "chunk", val |-> v]
NoFirst == [kind |-> "none", val |-> <<>>, raw |-> <<>>]

\* No publisher unit: the iterator is called directly.
NoUnit ==
    [pc |-> "none", self_terminating |-> FALSE, signal |-> <<>>, term |-> <<>>,
     got |-> <<>>]

\* The iterator constructed from a file and a configuration.
construct(file, c) ==
        LET obj == scan_file(file, c) IN
        /\ xdf = file
        /\ cfg = c
        /\ status = obj.status
        /\ streams = obj.streams
        /\ metadata = obj.metadata
        /\ n_chunks = obj.n_chunks
        /\ templates = IF obj.status = "ok"
                       THEN init_templates(c.cls, obj.streams, obj.metadata, c.select)
                       ELSE <<>>
        /\ chunk_ix = 0
        /\ last_time = 0
        /\ chunk_dict = <<>>
        /\ out = NoResult
        /\ delivered = [n \in DOMAIN obj.streams |-> <<>>]
        /\ first0 = NoFirst
        /\ restarted = FALSE
        /\ returned = {}

\* The state after construction, for every file and configuration.
Init ==
    \E file \in Files, c \in Configs :
        /\ construct(file, c)
        /\ unit = NoUnit

\* -------------------------------------------------- XDFIterator.__next__
\* Mutant: the end is noticed one call late.
stop_iteration_late(ix, n) == ix > n

\* if self._chunk_ix >= self.n_chunks: raise StopIteration
stop_iteration(ix, n) == ix >= n

\* Mutant: the window's upper edge is included.
b_chunk_closed(tvec, lo, hi) ==
    [i \in 1..Len(tvec) |-> tvec[i] >= lo /\ tvec[i] <= hi]

\* b_chunk: the samples of the window [t_start, t_stop).
b_chunk(tvec, lo, hi) ==
    [i \in 1..Len(tvec) |-> tvec[i] >= lo /\ tvec[i] < hi]

\* t_start, t_stop of the chunk at index ix.
t_start(ix, chunk_dur) == ix * chunk_dur
t_stop(ix, chunk_dur) == (ix + 1) * chunk_dur

\* out_dict: per stream, (out_data, out_tvec).
next_out_dict(strms, ix, chunk_dur) ==
    [n \in DOMAIN strms |->
        LET b == b_chunk(strms[n].time_stamps, t_start(ix, chunk_dur), t_stop(ix, chunk_dur))
        IN  <<Mask(strms[n].time_series, b), Mask(strms[n].time_stamps, b)>>]

\* Mutant: self._last_time is not updated.
next_last_time_stale(lt, d) == lt

\* self._last_time after the loop: max with out_tvec[-1] of every stream
\* that has a sample in the window.
next_last_time(lt, d) ==
    SetMax({lt} \cup {d[n][2][Len(d[n][2])] : n \in {m \in DOMAIN d : Len(d[m][2]) > 0}})

\* Mutant: the container is built anew, without the template's labels.
replace_without_labels(template, data, offset) ==
    [template EXCEPT !.data = data, !.offset = offset, !.labels = <<>>]

\* dataclasses.replace(template, data=..., axes={..., "time": replace(..., offset=...)})
replace(template, data, offset) ==
    [template EXCEPT !.data = data, !.offset = offset]

\* Mutant: an empty window keeps the template's offset 0.
first_or_zero(tvec, lt) == IF Len(tvec) > 0 THEN tvec[1] ELSE 0

\* Mutant: the offset is always self._last_time.
first_or_last_always_last(tvec, lt) == lt

\* offset=tvec[0] if len(tvec) else self._last_time
first_or_last(tvec, lt) == IF Len(tvec) > 0 THEN tvec[1] ELSE lt

\* XDFAxisArrayIterator.__next__: the container of the one selected stream.
single_result(tmpls, select, d, lt) ==
    LET k == CHOOSE n \in The(select) : n \in DOMAIN d
    IN  replace(tmpls[k], d[k][1], first_or_last(d[k][2], lt))

\* Mutant: the length of the window's timestamps is not looked at.
multi_has_key_any(k, d) == k \in DOMAIN d

\* if k in chunk_dict and len(chunk_dict[k][1]) > 0
multi_has_key(k, d) == k \in DOMAIN d /\ Len(d[k][2]) > 0

\* Mutant: every container is stamped with the window's first timestamp.
split_msgs_first_stamp(template, data, tvec) ==
    [ix \in 1..Len(tvec) |-> replace(template, <<data[ix]>>, tvec[1])]

\* One container per sample, each with the sample's own timestamp.
split_msgs(template, data, tvec) ==
    [ix \in 1..Len(tvec) |-> replace(template, <<data[ix]>>, tvec[ix])]

\* XDFMultiAxArrIterator.__next__: out_dict.
multi_result(tmpls, fss, d, lt) ==
    [k \in {n \in DOMAIN tmpls : multi_has_key(n, d)} |->
        IF k \in fss
        THEN split_msgs(tmpls[k], d[k][1], d[k][2])
        ELSE <<replace(tmpls[k], d[k][1], first_or_last(d[k][2], lt))>>]

\* What __next__ of class cls returns from the chunk d of the base class.
next_result(cls, d, lt) ==
    IF cls = "XDFAxisArrayIterator"
    THEN single_result(templates, cfg.select, d, lt)
    ELSE IF cls = "XDFMultiAxArrIterator"
    THEN multi_result(templates, cfg.force_single_sample, d, lt)
    ELSE d

\* One __next__ call of an iterator of class cls.
next_call(cls) ==
    /\ status = "ok"
    /\ IF stop_iteration(chunk_ix, n_chunks)
       THEN /\ out' = StopIteration
            /\ UNCHANGED <<chunk_ix, last_time, chunk_dict, delivered, first0, returned>>
       ELSE LET d == next_out_dict(streams, chunk_ix, cfg.chunk_dur)
                lt == next_last_time(last_time, d)
                r == next_result(cls, d, lt)
            IN  /\ chunk_dict' = d
                /\ last_time' = lt
                /\ chunk_ix' = chunk_ix + 1
                /\ out' = Chunk(r)
                /\ delivered' = [n \in DOMAIN delivered |-> delivered[n] \o d[n][1]]
                /\ first0' = IF first0.kind = "none"
                             THEN [kind |-> "chunk", val |-> r, raw |-> d]
                             ELSE first0
                /\ returned' = returned \cup
                        UNION {{d[n][2][i] : i \in 1..Len(d[n][2])} : n \in DOMAIN d}
    /\ UNCHANGED <<xdf, cfg, status, streams, metadata, n_chunks, templates, restarted>>

XDFIterator_next ==
    /\ cfg.cls = "XDFIterator"
    /\ unit.pc = "none"
    /\ next_call("XDFIterator")
    /\ UNCHANGED unit

XDFAxisArrayIterator_next ==
    /\ cfg.cls = "XDFAxisArrayIterator"
    /\ unit.pc = "none"
    /\ next_call("XDFAxisArrayIterator")
    /\ UNCHANGED unit

XDFMultiAxArrIterator_next ==
    /\ cfg.cls = "XDFMultiAxArrIterator"
    /\ unit.pc = "none"
    /\ next_call("XDFMultiAxArrIterator")
    /\ UNCHANGED unit

\* XDFIterator.__iter__: self._chunk_ix = 0; return self.
XDFIterator_iter ==
    /\ status = "ok"
    /\ unit.pc = "none"
    /\ chunk_ix' = 0
    /\ out' = Self
    /\ delivered' = [n \in DOMAIN delivered |-> <<>>]
    /\ restarted' = TRUE
    /\ UNCHANGED <<xdf, cfg, status, streams, metadata, n_chunks, templates,
                   last_time, chunk_dict, first0, returned, unit>>

Next ==
    \/ XDFIterator_next
    \/ XDFAxisArrayIterator_next
    \/ XDFMultiAxArrIterator_next
    \/ XDFIterator_iter

Spec == Init /\ [][Next]_vars

\* ------------------------------------------------ the publisher units
\* XDFIteratorUnit and XDFMultiIteratorUnit (source.py). unit.pc is the
\* position of the publisher coroutine, unit.signal and unit.term are the
\* messages yielded on OUTPUT_SIGNAL and OUTPUT_TERM, unit.got is the history
\* of what next(self.STATE.gen) returned. The playback clock only delays a
\* loop iteration and is left out.

\* The settings of a unit: those of its iterator (select is one name for
\* XDFIteratorUnit) and self_terminating.
UnitConfigs == {c \in Configs : c.cls # "XDFIterator"}

\* initialize(): construct_generator(); the coroutine starts only if the
\* construction did not raise.
initialize(file, c, st) ==
    /\ construct(file, c)
    /\ unit = [pc |-> IF status = "ok" THEN "running" ELSE "failed",
               self_terminating |-> st, signal |-> <<>>, term |-> <<>>,
               got |-> <<>>]

InitPub ==
    \E file \in Files, c \in UnitConfigs, st \in BOOLEAN : initialize(file, c, st)

\* Mutant: every chunk is published.
pub_chunk_publishes_always(msg) == TRUE

\* if msg.data.size > 0 (a template has at least one channel)
pub_chunk_publishes(msg) == Len(msg.data) * msg.n_ch > 0

\* if msg is not None: a MultiStreamMessage is never None.
pub_multi_publishes(msg) == TRUE

\* except StopIteration: raise ez.NormalTermination if self_terminating,
\* else yield OUTPUT_TERM, True; the coroutine ends.
exhausted(u) ==
    IF u.self_terminating
    THEN [u EXCEPT !.pc = "NormalTermination"]
    ELSE [u EXCEPT !.term = Append(@, TRUE), !.pc = "done"]

\* One iteration of a publisher's loop, after msg = next(self.STATE.gen).
published(u, res, publishes) ==
    IF res.kind = "StopIteration" THEN exhausted(u)
    ELSE IF publishes
    THEN [u EXCEPT !.signal = Append(@, res.val), !.got = Append(@, res.val)]
    ELSE [u EXCEPT !.got = Append(@, res.val)]

\* XDFIteratorUnit.pub_chunk: one iteration of while True.
pub_chunk ==
    /\ cfg.cls = "XDFAxisArrayIterator"
    /\ unit.pc = "running"
    /\ next_call("XDFAxisArrayIterator")
    /\ unit' = published(unit, out',
                         out'.kind = "chunk" /\ pub_chunk_publishes(out'.val))

\* XDFMultiIteratorUnit.pub_multi: one iteration of while True.
pub_multi ==
    /\ cfg.cls = "XDFMultiAxArrIterator"
    /\ unit.pc = "running"
    /\ next_call("XDFMultiAxArrIterator")
    /\ unit' = published(unit, out',
                         out'.kind = "chunk" /\ pub_multi_publishes(out'.val))

NextPub ==
    \/ pub_chunk
    \/ pub_multi

SpecPub == InitPub /\ [][NextPub]_vars

\* =============================================================== claims
\* What the claims speak of, stated from the file and the configuration
\* alone.

\* The window of the call made at cursor index i.
InWindow(t, i) == i * cfg.chunk_dur <= t /\ t < (i + 1) * cfg.chunk_dur

\* The data of a sequence, as a set.
Range(seq) == {seq[i] : i \in 1..Len(seq)}

\* The streams the constructor reads from the file.
LoadedNames ==
    IF cfg.rezero \/ cfg.select = None THEN DOMAIN xdf
    ELSE DOMAIN xdf \cap The(cfg.select)

\* The least first timestamp of the streams in S (0 if none has a sample).
MinFirst(S) ==
    LET firsts == {xdf[n][1] : n \in {m \in S : Len(xdf[m]) > 0}}
    IN  IF firsts = {} THEN 0 ELSE SetMin(firsts)

\* The origin subtracted from the file's timestamps.
Shift == IF cfg.rezero THEN MinFirst(DOMAIN xdf) ELSE 0

WithinBounds(t) ==
    /\ cfg.start_time # None => t >= The(cfg.start_time)
    /\ cfg.stop_time # None => t <= The(cfg.stop_time)

\* The samples of stream n that trimming retains.
Retained(n) == {j \in 1..Len(xdf[n]) : WithinBounds(xdf[n][j] - Shift)}

\* The select set names only streams of the file, and at least one.
SelectKnown ==
    cfg.select # None => (The(cfg.select) # {} /\ The(cfg.select) \subseteq DOMAIN xdf)

\* ---------------------------------------------------------------- C1
\* C1 (as claimed): when a freshly constructed iterator signals
\* EndOfSequence, every retained sample of every live stream has been
\* returned in some chunk.
C1_AllSamplesDelivered ==
    (status = "ok" /\ ~restarted /\ out.kind = "StopIteration") =>
        \A n \in DOMAIN streams :
            Range(delivered[n]) = Range(streams[n].time_series)

\* ---------------------------------------------------------------- C2
\* C2: the call made at cursor index i returns, for each live stream,
\* exactly the samples with i*chunk_dur <= t < (i+1)*chunk_dur, each with its
\* own timestamp and in original order, and no sample is returned twice in
\* one pass.
C2_WindowMembership ==
    (status = "ok" /\ out.kind = "chunk") =>
        /\ DOMAIN chunk_dict = DOMAIN streams
        /\ \A n \in DOMAIN streams :
            LET data == chunk_dict[n][1]
                tvec == chunk_dict[n][2]
                ts == streams[n].time_stamps
                series == streams[n].time_series
            IN  /\ Len(data) = Len(tvec)
                /\ \A j \in 1..Len(ts) :
                      InWindow(ts[j], chunk_ix - 1) <=>
                          \E k \in 1..Len(data) : data[k] = series[j] /\ tvec[k] = ts[j]
                /\ \A k \in 1..Len(data) : \E j \in 1..Len(ts) : data[k] = series[j]
                /\ \A k1 \in 1..Len(data) : \A k2 \in 1..Len(data) :
                      k1 < k2 => data[k1] < data[k2]
                /\ \A a \in 1..Len(delivered[n]) : \A b \in 1..Len(delivered[n]) :
                      a # b => delivered[n][a] # delivered[n][b]

\* A second chunk was returned, it holds a sample, and a sample of the
\* stream lies exactly on the window's upper edge (and is left out).
C2_Witness ==
    /\ status = "ok" /\ out.kind = "chunk" /\ chunk_ix = 2
    /\ \E n \in DOMAIN streams :
        /\ Len(chunk_dict[n][1]) > 0
        /\ \E j \in 1..Len(streams[n].time_stamps) :
              streams[n].time_stamps[j] = 2 * cfg.chunk_dur

\* ---------------------------------------------------------------- C3
\* The effective duration: the greatest retained timestamp over the loaded
\* streams, less the least first timestamp of the loaded streams when
\* rezero is off.
EffDur ==
    LET ts == UNION {{xdf[n][j] - Shift : j \in Retained(n)} : n \in LoadedNames}
    IN  SetMax(ts \cup {0}) - (IF cfg.rezero THEN 0 ELSE MinFirst(LoadedNames))

\* C3: in every state of a constructed iterator, total_chunks is
\* ceil(effective_duration / chunk_dur): the least k with
\* k * chunk_dur >= effective_duration.
C3_TotalChunks ==
    status = "ok" =>
        /\ n_chunks * cfg.chunk_dur >= EffDur
        /\ (n_chunks - 1) * cfg.chunk_dur < EffDur

\* rezero is off, the file starts after 0, the duration is no multiple of
\* chunk_dur (the rounding up shows), and calls have been made.
C3_Witness ==
    /\ status = "ok" /\ ~cfg.rezero /\ MinFirst(LoadedNames) > 0
    /\ n_chunks * cfg.chunk_dur > EffDur
    /\ n_chunks >= 1 /\ chunk_ix = n_chunks

\* ---------------------------------------------------------------- C4
\* C4: 0 <= current_index <= total_chunks always; a call returns a chunk
\* exactly when current_index < total_chunks and then adds 1 to
\* current_index; at current_index = total_chunks every call raises
\* StopIteration and leaves current_index and last_time as they are.
C4_EndOfSequenceTerminal ==
    /\ [](0 <= chunk_ix /\ chunk_ix <= n_chunks)
    /\ [][/\ out'.kind = "chunk" =>
                (chunk_ix < n_chunks /\ chunk_ix' = chunk_ix + 1)
          /\ out'.kind = "StopIteration" =>
                (chunk_ix = n_chunks /\ chunk_ix' = chunk_ix /\ last_time' = last_time)
          /\ out'.kind = "self" => chunk_ix' = 0
          /\ chunk_ix' <= n_chunks']_vars

\* The end of a second pass over at least two chunks.
C4_Witness ==
    /\ status = "ok" /\ restarted /\ out.kind = "StopIteration"
    /\ n_chunks >= 2 /\ chunk_ix = n_chunks /\ last_time > 0

\* ---------------------------------------------------------------- C5
\* C5 (as claimed): after a restart, the chunk returned at index 0 is
\* the chunk 0 of the first pass, container offsets included.
C5_RestartReproducesChunk0 ==
    (status = "ok" /\ restarted /\ out.kind = "chunk" /\ chunk_ix = 1
        /\ first0.kind = "chunk") =>
        /\ chunk_dict = first0.raw
        /\ out.val = first0.val

\* ---------------------------------------------------------------- C6
\* C6 (as claimed): with a time bound given (and a known select set, and
\* samples in every stream), construction succeeds and each live stream
\* holds exactly the samples with start_time <= t <= stop_time, data and
\* timestamps parallel.
C6_TrimmingRetainsWindow ==
    (/\ cfg.start_time # None \/ cfg.stop_time # None
     /\ SelectKnown
     /\ \A n \in DOMAIN xdf : Len(xdf[n]) > 0) =>
        /\ status = "ok"
        /\ \A n \in DOMAIN streams :
            /\ Range(streams[n].time_series) = Retained(n)
            /\ Len(streams[n].time_series) = Len(streams[n].time_stamps)
            /\ \A i \in 1..Len(streams[n].time_stamps) :
                  streams[n].time_stamps[i] = xdf[n][streams[n].time_series[i]] - Shift

\* ---------------------------------------------------------------- C7
\* C7: with rezero, every live stream holds all its samples, each with
\* its original timestamp less t0, the least first timestamp over all
\* non-empty streams of the file, selected or not.
C7_RezeroGlobalOrigin ==
    (status = "ok" /\ cfg.rezero) =>
        \A n \in DOMAIN streams :
            /\ Len(streams[n].time_stamps) = Len(streams[n].time_series)
            /\ \A i \in 1..Len(streams[n].time_stamps) :
                  streams[n].time_stamps[i] =
                      xdf[n][streams[n].time_series[i]] - MinFirst(DOMAIN xdf)
            /\ Range(streams[n].time_series) = Retained(n)

\* Only B is selected and the file's earliest sample is A's, after 0.
C7_Witness ==
    /\ status = "ok" /\ cfg.rezero /\ cfg.select = Some({"B"})
    /\ Len(xdf["A"]) > 0 /\ Len(xdf["B"]) > 0
    /\ 0 < xdf["A"][1] /\ xdf["A"][1] < xdf["B"][1]
    /\ streams["B"].time_stamps[1] = xdf["B"][1] - xdf["A"][1]

\* ---------------------------------------------------------------- C8
\* C8 (as claimed): a select set naming a stream the file does not have
\* makes the construction of a single- or multi-stream iterator fail.
C8_UnknownSelectRaises ==
    (/\ cfg.cls \in {"XDFAxisArrayIterator", "XDFMultiAxArrIterator"}
     /\ cfg.select # None
     /\ \E s \in The(cfg.select) : s \notin DOMAIN xdf) =>
        status # "ok"

\* ---------------------------------------------------------------- C9
\* The keys of a returned result (the single-stream result is one
\* container, keyed by its stream).
OutKeys ==
    IF cfg.cls = "XDFAxisArrayIterator" THEN {out.val.key} ELSE DOMAIN out.val

\* C9: with a select set of names of the file, the metadata has exactly
\* the selected names and every result's keys are selected names; with no
\* select set, every key is a stream of the file.
C9_SelectionRespected ==
    status = "ok" =>
        /\ (cfg.select # None /\ The(cfg.select) \subseteq DOMAIN xdf) =>
              /\ DOMAIN metadata = The(cfg.select)
              /\ out.kind = "chunk" => OutKeys \subseteq The(cfg.select)
        /\ cfg.select = None =>
              /\ DOMAIN metadata = DOMAIN xdf
              /\ out.kind = "chunk" => OutKeys \subseteq DOMAIN xdf

\* With rezero, only B selected: a result with B, in whose window the
\* unselected A has a sample too.
C9_Witness ==
    /\ status = "ok" /\ cfg.rezero /\ cfg.select = Some({"B"})
    /\ cfg.cls # "XDFAxisArrayIterator"
    /\ out.kind = "chunk" /\ OutKeys = {"B"} /\ Len(out.val["B"]) > 0
    /\ \E j \in 1..Len(xdf["A"]) : InWindow(xdf["A"][j] - Shift, chunk_ix - 1)

\* --------------------------------------------------------------- C10
\* C10: a stream is a key of the multi-stream result exactly when the
\* live stream has a sample in the window of the call.
C10_KeyIffSampleInWindow ==
    (status = "ok" /\ cfg.cls = "XDFMultiAxArrIterator" /\ out.kind = "chunk") =>
        /\ DOMAIN out.val \subseteq DOMAIN streams
        /\ \A n \in DOMAIN streams :
              n \in DOMAIN out.val <=>
                  \E j \in 1..Len(streams[n].time_stamps) :
                      InWindow(streams[n].time_stamps[j], chunk_ix - 1)

\* Two live streams, one with samples in the window and one without, and
\* one live stream with no sample at all.
C10_Witness ==
    /\ status = "ok" /\ cfg.cls = "XDFMultiAxArrIterator" /\ out.kind = "chunk"
    /\ DOMAIN streams = {"A", "B"}
    /\ DOMAIN out.val = {"A"}
    /\ Len(streams["B"].time_stamps) = 0

\* --------------------------------------------------------------- C11
\* The samples of live stream n in the window of the last call, in order.
WindowIdx(n) ==
    SelectSeq([j \in 1..Len(streams[n].time_stamps) |-> j],
              LAMBDA j : InWindow(streams[n].time_stamps[j], chunk_ix - 1))

\* C11: a force_single_sample stream with k >= 1 samples in the window
\* is mapped to a tuple of exactly k containers; the j-th holds the j-th
\* sample of the window alone and is stamped with that sample's timestamp.
C11_ForceSingleSample ==
    (status = "ok" /\ cfg.cls = "XDFMultiAxArrIterator" /\ out.kind = "chunk") =>
        \A n \in DOMAIN streams \cap cfg.force_single_sample :
            Len(WindowIdx(n)) >= 1 =>
                /\ n \in DOMAIN out.val
                /\ Len(out.val[n]) = Len(WindowIdx(n))
                /\ \A j \in 1..Len(WindowIdx(n)) :
                      /\ out.val[n][j].data = <<streams[n].time_series[WindowIdx(n)[j]]>>
                      /\ out.val[n][j].offset = streams[n].time_stamps[WindowIdx(n)[j]]

\* B is split and has two samples in the window of the second call.
C11_Witness ==
    /\ status = "ok" /\ cfg.cls = "XDFMultiAxArrIterator" /\ out.kind = "chunk"
    /\ "B" \in cfg.force_single_sample /\ "B" \in DOMAIN out.val
    /\ chunk_ix = 2
    /\ Len(out.val["B"]) = 2
    /\ out.val["B"][1].offset < out.val["B"][2].offset

\* --------------------------------------------------------------- C12
\* C12: a stream not in force_single_sample with k >= 1 samples in the
\* window is mapped to exactly one container: all k samples in order, the
\* first sample's timestamp as offset, dims, labels and rate of the template.
C12_BatchedContainer ==
    (status = "ok" /\ cfg.cls = "XDFMultiAxArrIterator" /\ out.kind = "chunk") =>
        \A n \in DOMAIN streams \ cfg.force_single_sample :
            Len(WindowIdx(n)) >= 1 =>
                /\ n \in DOMAIN out.val
                /\ Len(out.val[n]) = 1
                /\ out.val[n][1].data =
                      [k \in 1..Len(WindowIdx(n)) |-> streams[n].time_series[WindowIdx(n)[k]]]
                /\ out.val[n][1].offset = streams[n].time_stamps[WindowIdx(n)[1]]
                /\ out.val[n][1].dims = templates[n].dims
                /\ out.val[n][1].labels = templates[n].labels
                /\ out.val[n][1].fs = templates[n].fs
                /\ out.val[n][1].labels = labels_from_strm([info |-> Info(n)])
                /\ out.val[n][1].fs = fs_or_one(Info(n).nominal_srate)

\* A is batched with two samples in the window of the second call, while
\* last_time holds a later timestamp of another stream.
C12_Witness ==
    /\ status = "ok" /\ cfg.cls = "XDFMultiAxArrIterator" /\ out.kind = "chunk"
    /\ "A" \in DOMAIN out.val /\ chunk_ix = 2
    /\ Len(out.val["A"][1].data) = 2
    /\ out.val["A"][1].offset < last_time

\* --------------------------------------------------------------- C13
\* No live stream has a sample in the window at index i.
SilentWindow(i) ==
    \A n \in DOMAIN streams :
        \A j \in 1..Len(streams[n].time_stamps) : ~InWindow(streams[n].time_stamps[j], i)

\* C13: a call of the multi-stream iterator at current_index <
\* total_chunks on a window in which every live stream is silent returns
\* the empty mapping and adds 1 to current_index; StopIteration is raised
\* only at current_index >= total_chunks.
C13_SilentWindowNotTheEnd ==
    [][(status = "ok" /\ cfg.cls = "XDFMultiAxArrIterator" /\ out'.kind # "self") =>
          /\ (chunk_ix < n_chunks /\ SilentWindow(chunk_ix)) =>
                /\ out'.kind = "chunk"
                /\ DOMAIN out'.val = {}
                /\ chunk_ix' = chunk_ix + 1
          /\ out'.kind = "StopIteration" => chunk_ix >= n_chunks]_vars

\* A later window was delivered with samples after an all-silent window
\* had returned the empty mapping.
C13_Witness ==
    /\ status = "ok" /\ cfg.cls = "XDFMultiAxArrIterator" /\ out.kind = "chunk"
    /\ DOMAIN streams # {}
    /\ chunk_ix >= 2 /\ SilentWindow(chunk_ix - 2)
    /\ DOMAIN out.val # {}

\* --------------------------------------------------------------- C14
\* C14: every call of the single-stream iterator that returns, returns
\* one container of the selected stream: the window's samples with the first
\* sample's timestamp as offset, or no sample and the largest timestamp
\* returned so far in the session (0 if none) as offset.
C14_SingleContainer ==
    (status = "ok" /\ cfg.cls = "XDFAxisArrayIterator" /\ out.kind = "chunk") =>
        LET n == The(The(cfg.select)) IN
        /\ out.val.key = n
        /\ n \in DOMAIN streams
        /\ out.val.data =
              [k \in 1..Len(WindowIdx(n)) |-> streams[n].time_series[WindowIdx(n)[k]]]
        /\ Len(WindowIdx(n)) > 0 =>
              out.val.offset = streams[n].time_stamps[WindowIdx(n)[1]]
        /\ Len(WindowIdx(n)) = 0 =>
              out.val.offset = SetMax(returned \cup {0})

\* An empty window after a sample with a timestamp > 0 was returned.
C14_Witness ==
    /\ status = "ok" /\ cfg.cls = "XDFAxisArrayIterator" /\ out.kind = "chunk"
    /\ out.val.data = <<>> /\ out.val.offset > 0 /\ ~restarted

\* --------------------------------------------------------------- C19
\* C19: last_time is the largest timestamp returned by any call since
\* construction (0 if none); no step lowers it, a restart leaves it.
C19_LastTimeRunningMax ==
    /\ [](last_time = SetMax(returned \cup {0}))
    /\ [][/\ last_time' >= last_time
          /\ out'.kind = "self" => last_time' = last_time]_vars

\* After a restart, with a chunk returned that holds no timestamp as
\* large as last_time.
C19_Witness ==
    /\ status = "ok" /\ restarted /\ out.kind = "chunk" /\ chunk_ix = 1
    /\ last_time > 0
    /\ \A n \in DOMAIN chunk_dict :
          \A i \in 1..Len(chunk_dict[n][2]) : chunk_dict[n][2][i] < last_time

\* --------------------------------------------------------------- C15
\* The offsets of the containers of stream n in the last result.
OutOffsets(n) ==
    IF cfg.cls = "XDFAxisArrayIterator" THEN {out.val.offset}
    ELSE IF cfg.cls = "XDFMultiAxArrIterator"
    THEN {out.val[n][k].offset : k \in 1..Len(out.val[n])}
    ELSE {}

\* C15: with rezero, the first non-empty chunk of a pass for a live
\* stream that holds the earliest sample of the file starts at timestamp 0,
\* and so does its first container.
C15_RezeroedStartsAtZero ==
    (status = "ok" /\ cfg.rezero /\ out.kind = "chunk") =>
        \A n \in DOMAIN streams :
            (/\ Len(xdf[n]) > 0 /\ xdf[n][1] = MinFirst(DOMAIN xdf)
             /\ Len(chunk_dict[n][1]) > 0
             /\ delivered[n] = chunk_dict[n][1]) =>
                /\ chunk_dict[n][2][1] = 0
                /\ OutOffsets(n) # {} => SetMin(OutOffsets(n)) = 0

\* The file starts after 0 and a container of its earliest stream was
\* returned with offset 0.
C15_Witness ==
    /\ status = "ok" /\ cfg.rezero /\ out.kind = "chunk"
    /\ cfg.cls = "XDFMultiAxArrIterator"
    /\ MinFirst(DOMAIN xdf) > 0
    /\ \E n \in DOMAIN out.val :
          /\ xdf[n][1] = MinFirst(DOMAIN xdf)
          /\ delivered[n] = chunk_dict[n][1]
          /\ out.val[n][1].offset = 0

\* --------------------------------------------------------------- C16
\* C16 (as claimed): with rezero and a time bound, the bounds are
\* compared with the absolute timestamps of the file: no live sample has an
\* absolute timestamp outside [start_time, stop_time].
C16_TrimOnAbsoluteTime ==
    (status = "ok" /\ cfg.rezero
        /\ (cfg.start_time # None \/ cfg.stop_time # None)) =>
        \A n \in DOMAIN streams :
            \A i \in 1..Len(streams[n].time_series) :
                WithinBounds(xdf[n][streams[n].time_series[i]])

\* C16 (amended): with rezero and a time bound, the bounds are compared
\* with the rezeroed timestamps: every live sample's timestamp is its file
\* timestamp less t0 and lies within [start_time, stop_time], every
\* returned timestamp lies within them, and the chunks do not reach past
\* stop_time.
C16_TrimOnRezeroedTime ==
    (status = "ok" /\ cfg.rezero
        /\ (cfg.start_time # None \/ cfg.stop_time # None)) =>
        /\ \A n \in DOMAIN streams :
              \A i \in 1..Len(streams[n].time_stamps) :
                  /\ streams[n].time_stamps[i] =
                        xdf[n][streams[n].time_series[i]] - MinFirst(DOMAIN xdf)
                  /\ WithinBounds(streams[n].time_stamps[i])
        /\ \A t \in returned : WithinBounds(t)
        /\ cfg.stop_time # None => (n_chunks - 1) * cfg.chunk_dur < The(cfg.stop_time)

\* A sample whose absolute timestamp is past stop_time, and whose rezeroed
\* timestamp is not, has been returned.
C16_Witness ==
    /\ status = "ok" /\ cfg.rezero /\ cfg.stop_time # None
    /\ out.kind = "chunk"
    /\ \E n \in DOMAIN chunk_dict :
          \E k \in 1..Len(chunk_dict[n][1]) :
              /\ xdf[n][chunk_dict[n][1][k]] > The(cfg.stop_time)
              /\ chunk_dict[n][2][k] <= The(cfg.stop_time)

\* --------------------------------------------------------------- C18
\* C18 (as claimed): a file with a zero-sample stream (no time bound, a
\* known select set) constructs without error, rezero on or off, and the
\* zero-sample stream is never a key of a multi-stream result.
C18_ZeroSampleStreamTolerated ==
    (/\ \E n \in DOMAIN xdf : Len(xdf[n]) = 0
     /\ cfg.start_time = None /\ cfg.stop_time = None
     /\ SelectKnown) =>
        /\ status = "ok"
        /\ (cfg.cls = "XDFMultiAxArrIterator" /\ out.kind = "chunk") =>
              \A n \in DOMAIN xdf : Len(xdf[n]) = 0 => n \notin DOMAIN out.val

\* --------------------------------------------------------------- C20
\* The containers of the last result, with the stream of each.
OutContainers ==
    IF cfg.cls = "XDFAxisArrayIterator" THEN {<<The(The(cfg.select)), out.val>>}
    ELSE IF cfg.cls = "XDFMultiAxArrIterator"
    THEN UNION {{<<n, out.val[n][k]>> : k \in 1..Len(out.val[n])} :
                    n \in DOMAIN out.val}
    ELSE {}

\* C20: no call changes the loaded streams, the metadata, total_chunks
\* or a template; a restart changes neither last_time; every template has
\* no sample and offset 0, and every returned container is its template but
\* for data and offset.
C20_Frame ==
    /\ [](status = "ok" =>
            /\ \A n \in DOMAIN templates :
                  /\ templates[n].data = <<>>
                  /\ templates[n].offset = 0
                  /\ templates[n].labels = labels_from_strm([info |-> Info(n)])
                  /\ templates[n].fs = fs_or_one(Info(n).nominal_srate)
            /\ out.kind = "chunk" =>
                  \A c \in OutContainers :
                      c[2] = [templates[c[1]] EXCEPT !.data = c[2].data,
                                                     !.offset = c[2].offset])
    /\ [][/\ UNCHANGED <<xdf, cfg, status, streams, metadata, n_chunks, templates>>
          /\ out'.kind = "self" => last_time' = last_time
          /\ out'.kind = "StopIteration" => UNCHANGED <<chunk_ix, last_time>>]_vars

\* In a second pass, a container with samples and an offset > 0 has been
\* returned.
C20_Witness ==
    /\ status = "ok" /\ restarted /\ out.kind = "chunk"
    /\ \E c \in OutContainers : c[2].data # <<>> /\ c[2].offset > 0

\* --------------------------------------------------------------- C17
\* The single-stream containers with samples, in the order of a sequence.
WithSamples(seq) ==
    LET F[i \in 0..Len(seq)] ==
            IF i = 0 THEN <<>>
            ELSE IF seq[i].data # <<>> THEN Append(F[i - 1], seq[i]) ELSE F[i - 1]
    IN  F[Len(seq)]

\* The timestamps carried by the i-th result of next().
GotStamps(i) ==
    IF cfg.cls = "XDFAxisArrayIterator"
    THEN IF unit.got[i].data = <<>> THEN {} ELSE {unit.got[i].offset}
    ELSE UNION {{unit.got[i][n][k].offset : k \in 1..Len(unit.got[i][n])} :
                    n \in DOMAIN unit.got[i]}

SelectUnset == scan_file(xdf, [cfg EXCEPT !.select = None])

\* The greatest rezeroed timestamp over all the streams of the file.
FileDur ==
    SetMax(UNION {{xdf[n][j] - MinFirst(DOMAIN xdf) : j \in 1..Len(xdf[n])} :
                      n \in DOMAIN xdf} \cup {0})

\* C21: with rezero, a select set of names of the file constructs exactly
\* when select unset does, and with the same total_chunks: the rounded-up
\* duration over all the streams of the file.
C21_TotalChunksIgnoreSelect ==
    (/\ cfg.rezero
     /\ cfg.select # None
     /\ The(cfg.select) \subseteq DOMAIN xdf) =>
        /\ status = SelectUnset.status
        /\ status = "ok" =>
              /\ n_chunks = SelectUnset.n_chunks
              /\ n_chunks = CeilDiv(FileDur, cfg.chunk_dur)

\* With rezero and one stream selected, the last chunk has been returned and
\* holds no sample of the selected stream, which has samples: the unselected
\* stream ends later.
C21_Witness ==
    /\ status = "ok" /\ cfg.rezero /\ cfg.select # None
    /\ The(cfg.select) \subseteq DOMAIN xdf
    /\ DOMAIN streams # {} /\ DOMAIN streams # DOMAIN xdf
    /\ \A n \in DOMAIN streams : Len(xdf[n]) > 0
    /\ out.kind = "chunk" /\ chunk_ix = n_chunks
    /\ \A n \in DOMAIN chunk_dict : chunk_dict[n][2] = <<>>
    /\ n_chunks = SelectUnset.n_chunks

====
